---- MODULE Spec2Model ----
(***************************************************************************)
(* Feed screen of the mobile client (CompleteFeedScreen.js): the paginated *)
(* feed loader loadPosts with its triggers (mount effect, handleRefresh,   *)
(* handleLoadMore) and the optimistic feedback handlers handleLike and     *)
(* handleDislike, together with the requests they leave in flight.         *)
(*                                                                         *)
(* A handler runs synchronously up to its first await; the continuation    *)
(* after the await (try remainder, catch, finally) runs as one step when   *)
(* the request resolves.  The component is re-rendered between steps, so a *)
(* handler reads the state left by the previous step.                      *)
(*                                                                         *)
(* ApiService.makeRequest and the SecureStorage it reads the API key from  *)
(* are a second specification, SpecApi, over variables of their own.       *)
(***************************************************************************)
EXTENDS Integers, Sequences, FiniteSets, TLC

\* ---------------------------------------------------------------- bounds
\* feed loads and taps issued in one behaviour (the mount load included)
MaxOps == 4
\* feedback PUT requests in flight together
MaxPuts == 2
\* calls of ApiService.makeRequest in one behaviour
MaxRequests == 2

\* ------------------------------------------------------ program constants
LIMIT == 20

\* post ids the user taps
TapIds == {1, 2}
\* lengths of the pages the server answers with: empty, short, full
PageLens == {0, 1, LIMIT}

NULL == "null"
LoadFailedMsg == "Failed to load posts from API"
NoPostsMsg == "No posts received from API"

\* data.has_more: absent, or a boolean
HasMoreValues == {"undefined", "true", "false"}
\* how a feedback PUT resolves
PutOutcomes == {"ok", "not_ok", "throw"}

\* ApiService and SecureStorage
MissingKeyMsg == "API key not found. Please configure the app."
InvalidKeyMsg == "Invalid API key. Please reconfigure the app."
HttpErrorMsg == "HTTP error! status: "
KeyValues == {"", "key-a", "key-b"}
Statuses == {200, 204, 304, 401, 404, 500}
TransportErrors == {"Network request failed", "Aborted"}

VARIABLES
  posts,        \* useState([])   : the held post sequence
  loading,      \* useState(true)
  refreshing,   \* useState(false)
  loadingMore,  \* useState(false)
  hasMore,      \* useState(true)
  error,        \* useState(null)
  offset,       \* useState(0)
  mounted,      \* the mount effect has run
  fetches,      \* feed GET requests in flight, in issue order
  puts,         \* feedback PUT requests in flight, in issue order
  server,       \* flags the server stores for the posts of TapIds
  nLoads,       \* feed loads issued so far
  nTaps,        \* taps handled so far
  hist,         \* successful loads since the last successful reset load
  served,       \* the <<offset, length>> of the pages the server returned
  putFailed,    \* a feedback PUT has failed
  ev,           \* the step last taken
  secureStore,  \* the item SecureStore holds under API_KEY_STORAGE_KEY
  pc,           \* where the current call of makeRequest stands
  apiKey,       \* its local apiKey
  readFailed,   \* whether its read of the secure store was rejected
  netCalls,     \* the invocations of fetch it made
  header,       \* the X-API-Key header of its fetch
  fetchOutcome, \* how its fetch ended
  result,       \* what it returned or threw
  nReqs         \* calls of makeRequest so far

compVars == <<posts, loading, refreshing, loadingMore, hasMore, error, offset>>
feedVars == <<posts, loading, refreshing, loadingMore, hasMore, error, offset,
              mounted, fetches, puts, server, nLoads, nTaps, hist, served,
              putFailed, ev>>
apiVars == <<secureStore, pc, apiKey, readFailed, netCalls, header,
             fetchOutcome, result, nReqs>>
vars == <<feedVars, apiVars>>

NoFlags == [like_status |-> FALSE, dislike_status |-> FALSE]

\* ------------------------------------------------------------ the server
\* The feed is an ordered list whose k-th item has post_id k; a page asked
\* at offset off holds the items off+1 .. off+k with the flags stored now.
ServerPost(id) ==
  [post_id |-> id,
   post_content |-> "api",
   like_status |-> IF id \in TapIds THEN server[id].like_status ELSE FALSE,
   dislike_status |-> IF id \in TapIds THEN server[id].dislike_status ELSE FALSE]

ServerPage(off, k) == [i \in 1..k |-> ServerPost(off + i)]

\* --------------------------------------------------------------- helpers
IdsOf(s) == [i \in 1..Len(s) |-> s[i].post_id]

Held(postId) == \E i \in 1..Len(posts) : posts[i].post_id = postId

\* posts.findIndex(p => p.post_id === postId), 0 standing for -1
FindIndex(s, postId) ==
  IF \E i \in 1..Len(s) : s[i].post_id = postId
  THEN CHOOSE i \in 1..Len(s) :
         /\ s[i].post_id = postId
         /\ \A j \in 1..(i - 1) : s[j].post_id # postId
  ELSE 0

RemoveAt(s, i) == [j \in 1..(Len(s) - 1) |-> IF j < i THEN s[j] ELSE s[j + 1]]

\* the list, its buttons and its pull-to-refresh are rendered only when
\* loading is false
ListRendered == mounted /\ ~loading

\* ------------------------------------------------------------- loadPosts
FallbackPost(id) ==
  [post_id |-> id, post_content |-> "fallback",
   like_status |-> FALSE, dislike_status |-> FALSE]

FallbackPosts == [i \in 1..5 |-> FallbackPost(i)]

\* a request offset that is the cursor even for a reset load
CurrentOffsetStale(reset) == offset

\* currentOffset = reset ? 0 : offset
CurrentOffset(reset) == IF reset THEN 0 ELSE offset

\* the synchronous part of loadPosts(reset), up to the await of fetch
LoadPostsStart(reset) ==
  /\ nLoads + nTaps < MaxOps
  /\ IF reset
     THEN /\ loading' = TRUE
          /\ offset' = 0
          /\ UNCHANGED loadingMore
     ELSE /\ loadingMore' = TRUE
          /\ UNCHANGED <<loading, offset>>
  /\ error' = NULL
  /\ nLoads' = nLoads + 1
  /\ fetches' = Append(fetches,
        [n |-> nLoads + 1, reset |-> reset, currentOffset |-> CurrentOffset(reset)])
  /\ UNCHANGED <<posts, hasMore, puts, server, nTaps, hist, served, putFailed, apiVars>>

\* a setPosts that puts the new page in front of the held posts
SuccessPostsPrepend(reset, prev, page) == IF reset THEN page ELSE page \o prev

\* setPosts on success
SuccessPosts(reset, prev, page) == IF reset THEN page ELSE prev \o page

\* setOffset on success
SuccessOffset(reset, prev, page) == IF reset THEN Len(page) ELSE prev + Len(page)

\* a setHasMore that ignores the has_more field of the response
SuccessHasMoreInferred(has_more, page) == Len(page) = LIMIT

\* a setHasMore that takes any page of at most LIMIT posts as a full one
SuccessHasMoreAtMost(has_more, page) ==
  IF has_more # "undefined" THEN has_more = "true" ELSE Len(page) <= LIMIT

\* setHasMore on success
SuccessHasMore(has_more, page) ==
  IF has_more # "undefined" THEN has_more = "true" ELSE Len(page) = LIMIT

\* a catch block that installs the fallback posts after any failed load
CatchPostsAlways(reset, prev) == FallbackPosts

\* a catch block that never installs the fallback posts
CatchPostsKeep(reset, prev) == prev

\* setPosts in the catch block
CatchPosts(reset, prev) == IF reset THEN FallbackPosts ELSE prev

\* a finally block that leaves refreshing as it is
FinallyFlagsKeepRefreshing ==
  /\ loading' = FALSE
  /\ loadingMore' = FALSE
  /\ UNCHANGED refreshing

\* the finally block
FinallyFlags ==
  /\ loading' = FALSE
  /\ refreshing' = FALSE
  /\ loadingMore' = FALSE

\* useEffect(() => { loadPosts(true) }, [])
Mount ==
  /\ ~mounted
  /\ mounted' = TRUE
  /\ LoadPostsStart(TRUE)
  /\ UNCHANGED refreshing
  /\ ev' = [op |-> "mount"]

HandleRefresh ==
  /\ ListRendered
  /\ refreshing' = TRUE
  /\ LoadPostsStart(TRUE)
  /\ UNCHANGED mounted
  /\ ev' = [op |-> "handleRefresh"]

\* a guard that forgets the loading flag
LoadMoreGuardNoLoading == ~loadingMore /\ hasMore

\* if (!loadingMore && hasMore && !loading)
LoadMoreGuard == ~loadingMore /\ hasMore /\ ~loading

HandleLoadMore ==
  /\ mounted
  /\ IF LoadMoreGuard
     THEN /\ LoadPostsStart(FALSE)
          /\ UNCHANGED <<refreshing, mounted>>
     ELSE UNCHANGED <<compVars, mounted, fetches, puts, server, nLoads, nTaps,
                      hist, served, putFailed, apiVars>>
  /\ ev' = [op |-> "handleLoadMore", issued |-> LoadMoreGuard]

\* the continuation of loadPosts after the fetch i resolved with posts
FetchPosts(i, k, has_more) ==
  LET f == fetches[i]
      page == ServerPage(f.currentOffset, k)
  IN /\ posts' = SuccessPosts(f.reset, posts, page)
     /\ offset' = SuccessOffset(f.reset, offset, page)
     /\ hasMore' = SuccessHasMore(has_more, page)
     /\ UNCHANGED error
     /\ hist' = IF f.reset
                THEN <<[n |-> f.n, off |-> f.currentOffset, len |-> k]>>
                ELSE IF hist = <<>> THEN <<>>
                ELSE Append(hist, [n |-> f.n, off |-> f.currentOffset, len |-> k])
     /\ served' = served \cup {<<f.currentOffset, k>>}
     /\ ev' = [op |-> "loadPostsDone", first |-> f.n = 1, reset |-> f.reset,
               outcome |-> "posts", len |-> k, has_more |-> has_more]

\* ... with a body that has no posts array
FetchNoPosts(i) ==
  LET f == fetches[i]
  IN /\ error' = NoPostsMsg
     /\ hasMore' = FALSE
     /\ UNCHANGED <<posts, offset>>
     /\ hist' = <<>>
     /\ UNCHANGED served
     /\ ev' = [op |-> "loadPostsDone", first |-> f.n = 1, reset |-> f.reset,
               outcome |-> "no_posts"]

\* ... through the catch block: fetch or response.json() rejected ("throw"),
\* or !response.ok ("not_ok")
FetchCatch(i, outcome) ==
  LET f == fetches[i]
  IN /\ error' = LoadFailedMsg
     /\ posts' = CatchPosts(f.reset, posts)
     /\ hasMore' = FALSE
     /\ UNCHANGED offset
     /\ hist' = <<>>
     /\ UNCHANGED served
     /\ ev' = [op |-> "loadPostsDone", first |-> f.n = 1, reset |-> f.reset,
               outcome |-> outcome]

FetchDone ==
  \E i \in 1..Len(fetches) :
    /\ \/ \E k \in PageLens, hm \in HasMoreValues : FetchPosts(i, k, hm)
       \/ FetchNoPosts(i)
       \/ \E o \in {"throw", "not_ok"} : FetchCatch(i, o)
    /\ FinallyFlags
    /\ fetches' = RemoveAt(fetches, i)
    /\ UNCHANGED <<mounted, puts, server, nLoads, nTaps, putFailed, apiVars>>

\* ------------------------------------------------ handleLike / handleDislike
\* an optimistic like that sets the flag instead of toggling it
OptimisticLikeSet(post, newLikeStatus) ==
  [post EXCEPT !.like_status = TRUE, !.dislike_status = FALSE]

\* an optimistic like that leaves dislike_status as it is
OptimisticLikeKeepOther(post, newLikeStatus) ==
  [post EXCEPT !.like_status = newLikeStatus]

\* { ...post, like_status: newLikeStatus, dislike_status: false }
OptimisticLike(post, newLikeStatus) ==
  [post EXCEPT !.like_status = newLikeStatus, !.dislike_status = FALSE]

\* an optimistic dislike that builds the post anew and loses its content
OptimisticDislikeNoSpread(post, newDislikeStatus) ==
  [post_id |-> post.post_id, post_content |-> NULL,
   like_status |-> FALSE, dislike_status |-> newDislikeStatus]

\* { ...post, dislike_status: newDislikeStatus, like_status: false }
OptimisticDislike(post, newDislikeStatus) ==
  [post EXCEPT !.dislike_status = newDislikeStatus, !.like_status = FALSE]

\* a rollback that also negates the other flag
RevertLikeBoth(post) ==
  [post EXCEPT !.like_status = ~post.like_status,
               !.dislike_status = ~post.dislike_status]

\* { ...post, like_status: !post.like_status }
RevertLike(post) == [post EXCEPT !.like_status = ~post.like_status]

\* { ...post, dislike_status: !post.dislike_status }
RevertDislike(post) == [post EXCEPT !.dislike_status = ~post.dislike_status]

\* the step before was the success of the PUT of a tap of this kind on this
\* post, itself taken right after that tap
Repeats(kind, postId) ==
  /\ ev.op = "putDone"
  /\ ev.outcome = "ok"
  /\ ev.direct
  /\ ev.kind = kind
  /\ ev.postId = postId

\* the synchronous part of handleLike(postId), up to the await of the PUT
HandleLike(postId) ==
  LET postIndex == FindIndex(posts, postId)
      currentPost == posts[postIndex]
      newLikeStatus == ~currentPost.like_status
  IN /\ ListRendered
     /\ IF postIndex = 0
        THEN UNCHANGED <<posts, puts, nTaps>>
        ELSE /\ nLoads + nTaps < MaxOps
             /\ Len(puts) < MaxPuts
             /\ nTaps' = nTaps + 1
             /\ posts' = [i \in 1..Len(posts) |->
                            IF posts[i].post_id = postId
                            THEN OptimisticLike(posts[i], newLikeStatus)
                            ELSE posts[i]]
             /\ puts' = Append(puts,
                  [kind |-> "like", postId |-> postId,
                   like_status |-> newLikeStatus, dislike_status |-> FALSE,
                   prior |-> currentPost.like_status,
                   priorOther |-> currentPost.dislike_status,
                   second |-> Repeats("like", postId),
                   prior0 |-> IF Repeats("like", postId) THEN ev.prior
                              ELSE currentPost.like_status])
     /\ ev' = [op |-> "handleLike", postId |-> postId, found |-> postIndex # 0]
     /\ UNCHANGED <<loading, refreshing, loadingMore, hasMore, error, offset,
                    mounted, fetches, server, nLoads, hist, served, putFailed, apiVars>>

\* the synchronous part of handleDislike(postId)
HandleDislike(postId) ==
  LET postIndex == FindIndex(posts, postId)
      currentPost == posts[postIndex]
      newDislikeStatus == ~currentPost.dislike_status
  IN /\ ListRendered
     /\ IF postIndex = 0
        THEN UNCHANGED <<posts, puts, nTaps>>
        ELSE /\ nLoads + nTaps < MaxOps
             /\ Len(puts) < MaxPuts
             /\ nTaps' = nTaps + 1
             /\ posts' = [i \in 1..Len(posts) |->
                            IF posts[i].post_id = postId
                            THEN OptimisticDislike(posts[i], newDislikeStatus)
                            ELSE posts[i]]
             /\ puts' = Append(puts,
                  [kind |-> "dislike", postId |-> postId,
                   like_status |-> FALSE, dislike_status |-> newDislikeStatus,
                   prior |-> currentPost.dislike_status,
                   priorOther |-> currentPost.like_status,
                   second |-> Repeats("dislike", postId),
                   prior0 |-> IF Repeats("dislike", postId) THEN ev.prior
                              ELSE currentPost.dislike_status])
     /\ ev' = [op |-> "handleDislike", postId |-> postId, found |-> postIndex # 0]
     /\ UNCHANGED <<loading, refreshing, loadingMore, hasMore, error, offset,
                    mounted, fetches, server, nLoads, hist, served, putFailed, apiVars>>

\* the catch block of the handler that issued the PUT p
Revert(p, prev) ==
  [i \in 1..Len(prev) |->
     IF prev[i].post_id = p.postId
     THEN (IF p.kind = "like" THEN RevertLike(prev[i]) ELSE RevertDislike(prev[i]))
     ELSE prev[i]]

\* the server stores the body of a PUT it processes
ServerStore(p) ==
  IF p.postId \in TapIds
  THEN [server EXCEPT ![p.postId] =
          [like_status |-> p.like_status, dislike_status |-> p.dislike_status]]
  ELSE server

\* the PUT i resolves: response.ok ("ok"), !response.ok ("not_ok"), or fetch
\* rejects ("throw"), in which case the server may or may not have stored it
PutDone ==
  \E i \in 1..Len(puts), outcome \in PutOutcomes, stored \in BOOLEAN :
    LET p == puts[i]
    IN /\ stored = TRUE \/ outcome = "throw"
       /\ outcome = "not_ok" => ~stored
       /\ outcome = "ok" => stored
       /\ posts' = IF outcome = "ok" THEN posts ELSE Revert(p, posts)
       /\ server' = IF stored THEN ServerStore(p) ELSE server
       /\ puts' = RemoveAt(puts, i)
       /\ putFailed' = (putFailed \/ outcome # "ok")
       /\ ev' = [op |-> "putDone", kind |-> p.kind, postId |-> p.postId,
                 outcome |-> outcome, prior |-> p.prior,
                 priorOther |-> p.priorOther,
                 second |-> p.second, prior0 |-> p.prior0,
                 direct |-> /\ ev.op = (IF p.kind = "like" THEN "handleLike"
                                                           ELSE "handleDislike")
                            /\ ev.found
                            /\ i = Len(puts)]
       /\ UNCHANGED <<loading, refreshing, loadingMore, hasMore, error, offset,
                      mounted, fetches, nLoads, nTaps, hist, served, apiVars>>

Init ==
  /\ posts = <<>>
  /\ loading = TRUE
  /\ refreshing = FALSE
  /\ loadingMore = FALSE
  /\ hasMore = TRUE
  /\ error = NULL
  /\ offset = 0
  /\ mounted = FALSE
  /\ fetches = <<>>
  /\ puts = <<>>
  /\ server = [id \in TapIds |-> NoFlags]
  /\ nLoads = 0
  /\ nTaps = 0
  /\ hist = <<>>
  /\ served = {}
  /\ putFailed = FALSE
  /\ ev = [op |-> "init"]
  /\ secureStore = NULL
  /\ pc = "idle"
  /\ apiKey = NULL
  /\ readFailed = FALSE
  /\ netCalls = 0
  /\ header = NULL
  /\ fetchOutcome = [type |-> "none"]
  /\ result = [kind |-> "none"]
  /\ nReqs = 0

Next ==
  \/ Mount
  \/ HandleRefresh
  \/ HandleLoadMore
  \/ FetchDone
  \/ \E postId \in TapIds : HandleLike(postId)
  \/ \E postId \in TapIds : HandleDislike(postId)
  \/ PutDone

Spec == Init /\ [][Next]_vars

\* the loads alone (the feedback steps touch neither the loading flags nor
\* the feed fetches), every feed fetch in flight eventually resolving
NextLoads ==
  \/ Mount
  \/ HandleRefresh
  \/ HandleLoadMore
  \/ FetchDone

SpecLive == Init /\ [][NextLoads]_vars /\ WF_vars(FetchDone)

\* ------------------------------------------------------ SecureStorage
\* storeApiKey(apiKey): setItemAsync stores the item, or rejects and the
\* method returns false
StoreApiKey ==
  \E k \in KeyValues, rejected \in BOOLEAN :
    /\ secureStore' = IF rejected THEN secureStore ELSE k
    /\ UNCHANGED <<pc, apiKey, readFailed, netCalls, header, fetchOutcome, result, nReqs>>
    /\ UNCHANGED feedVars

\* removeApiKey(): deleteItemAsync deletes the item, or rejects
RemoveApiKey ==
  \E rejected \in BOOLEAN :
    /\ secureStore' = IF rejected THEN secureStore ELSE NULL
    /\ UNCHANGED <<pc, apiKey, readFailed, netCalls, header, fetchOutcome, result, nReqs>>
    /\ UNCHANGED feedVars

\* getApiKey(): the stored item, null when there is none, and null when
\* getItemAsync rejects
GetApiKey(rejected) == IF rejected THEN NULL ELSE secureStore

\* ------------------------------------------------------ ApiService
\* a test of the key that lets the empty string through
FalsyNullOnly(v) == v = NULL

\* !v for a string or null
Falsy(v) == v = NULL \/ v = ""

\* response.ok
Ok(status) == status >= 200 /\ status <= 299

Thrown(message) == [kind |-> "error", message |-> message]

\* a handling of the response that tests response.ok before the status 401
ResponseResultOkFirst(status) ==
  IF ~Ok(status) THEN Thrown(<<HttpErrorMsg, status>>)
  ELSE IF status = 401 THEN Thrown(<<InvalidKeyMsg>>)
  ELSE [kind |-> "response", status |-> status]

\* what makeRequest does with the response of its fetch
ResponseResult(status) ==
  IF status = 401 THEN Thrown(<<InvalidKeyMsg>>)
  ELSE IF ~Ok(status) THEN Thrown(<<HttpErrorMsg, status>>)
  ELSE [kind |-> "response", status |-> status]

\* makeRequest(endpoint, options), up to the await of getApiKey; calls are
\* taken one after the other
MakeRequest ==
  /\ pc \in {"idle", "returned", "thrown"}
  /\ nReqs < MaxRequests
  /\ nReqs' = nReqs + 1
  /\ pc' = "getApiKey"
  /\ apiKey' = NULL
  /\ readFailed' = FALSE
  /\ netCalls' = 0
  /\ header' = NULL
  /\ fetchOutcome' = [type |-> "none"]
  /\ result' = [kind |-> "none"]
  /\ UNCHANGED secureStore
  /\ UNCHANGED feedVars

\* getApiKey resolved: the test of the key, then either the throw that the
\* catch block passes on or the call of fetch
GetApiKeyDone ==
  \E rejected \in BOOLEAN :
    /\ pc = "getApiKey"
    /\ apiKey' = GetApiKey(rejected)
    /\ readFailed' = rejected
    /\ IF Falsy(apiKey')
       THEN /\ result' = Thrown(<<MissingKeyMsg>>)
            /\ pc' = "thrown"
            /\ UNCHANGED <<netCalls, header>>
       ELSE /\ netCalls' = netCalls + 1
            /\ header' = apiKey'
            /\ pc' = "fetch"
            /\ UNCHANGED result
    /\ UNCHANGED <<secureStore, fetchOutcome, nReqs>>
    /\ UNCHANGED feedVars

\* fetch resolved with a response
FetchResolved ==
  \E status \in Statuses :
    /\ pc = "fetch"
    /\ fetchOutcome' = [type |-> "response", status |-> status]
    /\ result' = ResponseResult(status)
    /\ pc' = IF result'.kind = "response" THEN "returned" ELSE "thrown"
    /\ UNCHANGED <<secureStore, apiKey, readFailed, netCalls, header, nReqs>>
    /\ UNCHANGED feedVars

\* fetch rejected: the catch block throws the error it caught
FetchRejected ==
  \E e \in TransportErrors :
    /\ pc = "fetch"
    /\ fetchOutcome' = [type |-> "rejected", error |-> e]
    /\ result' = Thrown(<<e>>)
    /\ pc' = "thrown"
    /\ UNCHANGED <<secureStore, apiKey, readFailed, netCalls, header, nReqs>>
    /\ UNCHANGED feedVars

NextApi ==
  \/ StoreApiKey
  \/ RemoveApiKey
  \/ MakeRequest
  \/ GetApiKeyDone
  \/ FetchResolved
  \/ FetchRejected

SpecApi == Init /\ [][NextApi]_vars

\* ================================================================ claims
\* the flag a feedback request of the given kind toggles, and the other one
Toggled(post, kind) ==
  IF kind = "like" THEN post.like_status ELSE post.dislike_status
OtherFlag(post, kind) ==
  IF kind = "like" THEN post.dislike_status ELSE post.like_status

FirstLoadInFlight == \E i \in 1..Len(fetches) : fetches[i].n = 1

LoadFailed == ev.op = "loadPostsDone" /\ ev.outcome # "posts"
PutFailed == ev.op = "putDone" /\ ev.outcome # "ok"

\* C1: no held post has like_status and dislike_status both true (the server
\* delivers posts with at most one of them true).
NeverBothFlags ==
  \A i \in 1..Len(posts) : ~(posts[i].like_status /\ posts[i].dislike_status)

\* C2: at most one feed load is in flight at any time, and loadingMore is
\* never set together with loading or refreshing.
AtMostOneFeedLoad ==
  /\ Len(fetches) <= 1
  /\ ~(loadingMore /\ (loading \/ refreshing))

\* C3: when a feedback PUT fails, the flag it toggled ends, on every held
\* post with the targeted id, equal to the value the located post had
\* immediately before that tap's optimistic update.
FailedPutRestoresFlag ==
  PutFailed =>
    \A i \in 1..Len(posts) :
      posts[i].post_id = ev.postId => Toggled(posts[i], ev.kind) = ev.prior

\* C4: a reset load that fails while posts are held leaves the held posts as
\* they were; the fallback posts are installed only by a failing reset load
\* that finds the held sequence empty.
FailedRefreshKeepsPosts ==
  [][(ev'.op = "loadPostsDone" /\ ev'.outcome # "posts" /\ posts # <<>>)
       => posts' = posts]_vars

\* C5: when the first load has completed and failed (thrown error, non-2xx,
\* or a 2xx body without a posts array), the held sequence is not empty.
FirstLoadFailureShowsPosts ==
  (LoadFailed /\ ev.first) => posts # <<>>

\* C6: when the first load completes through a thrown error or a non-2xx
\* status, the held posts are the 5 fallback posts (ids 1..5, both flags
\* false), hasMore is false, error is set and no loading flag is true.
InitialThrowGivesFallback ==
  (ev.op = "loadPostsDone" /\ ev.first /\ ev.outcome \in {"throw", "not_ok"}) =>
    /\ Len(posts) = 5
    /\ \A i \in 1..Len(posts) :
         /\ posts[i].post_id = i
         /\ posts[i].post_content = "fallback"
         /\ ~posts[i].like_status
         /\ ~posts[i].dislike_status
    /\ ~hasMore
    /\ error # NULL
    /\ ~loading /\ ~refreshing /\ ~loadingMore

InitialThrowWitness ==
  /\ ev.op = "loadPostsDone" /\ ev.first /\ ev.outcome = "throw"
  /\ Len(posts) = 5
  /\ error = LoadFailedMsg

\* C7: a load-more trigger that arrives while the first load is in flight,
\* or while loadingMore or loading is set, issues no request and changes no
\* state.
BlockedLoadMoreIsNoOp ==
  [][(ev'.op = "handleLoadMore" /\ (FirstLoadInFlight \/ loadingMore \/ loading))
       => UNCHANGED <<compVars, fetches, puts, nLoads>>]_vars

BlockedLoadMoreWitness ==
  /\ ev.op = "handleLoadMore" /\ ~ev.issued
  /\ FirstLoadInFlight
  /\ loading
  /\ Len(fetches) = 1

\* C8: a like tap sets, on every held post with the tapped id and before the
\* PUT resolves, like_status to the negation of its value and dislike_status
\* to false, so that a post with dislike_status = true gets like_status =
\* true; handleDislike is the mirror.
TapTogglesAndClears ==
  [][\A i \in 1..Len(posts) :
       /\ (ev'.op = "handleLike" /\ ev'.found /\ posts[i].post_id = ev'.postId) =>
            /\ posts'[i].like_status = ~posts[i].like_status
            /\ ~posts'[i].dislike_status
            /\ posts[i].dislike_status => posts'[i].like_status
       /\ (ev'.op = "handleDislike" /\ ev'.found /\ posts[i].post_id = ev'.postId) =>
            /\ posts'[i].dislike_status = ~posts[i].dislike_status
            /\ ~posts'[i].like_status
            /\ posts[i].like_status => posts'[i].dislike_status]_vars

PageIds(e) == [i \in 1..e.len |-> e.off + i]

\* the pages of the load-more entries of h, in the order of their requests
RECURSIVE AppendsInRequestOrder(_, _)
AppendsInRequestOrder(h, n) ==
  IF n > MaxOps THEN <<>>
  ELSE (IF \E j \in 2..Len(h) : h[j].n = n
        THEN PageIds(h[CHOOSE j \in 2..Len(h) : h[j].n = n])
        ELSE <<>>) \o AppendsInRequestOrder(h, n + 1)

\* C10: after a successful reset load followed only by successful load-more
\* completions, the held post ids are the reset page followed by the
\* returned pages in the order their requests were issued.
PagesInRequestOrder ==
  hist # <<>> =>
    IdsOf(posts) = PageIds(hist[1]) \o AppendsInRequestOrder(hist, 1)

LoadSucceeded == ev.op = "loadPostsDone" /\ ev.outcome = "posts"

\* the number of posts returned by the loads recorded in h
RECURSIVE SumLens(_)
SumLens(h) == IF h = <<>> THEN 0 ELSE Head(h).len + SumLens(Tail(h))

\* C11: when a successful reset load and the successful appends after it
\* have completed, the cursor offset is the number of posts they returned
\* (k0 + k1 + ... + kN), and a load-more request carries the cursor offset
\* of the moment of its trigger.
CursorCountsReturnedPosts ==
  /\ (LoadSucceeded /\ hist # <<>>) => offset = SumLens(hist)
  /\ (ev.op = "handleLoadMore" /\ ev.issued) =>
       fetches[Len(fetches)].currentOffset = offset

\* C12: after a successful load with a posts array, hasMore is the
\* response's has_more field when it is present, and otherwise tells whether
\* the page has exactly LIMIT posts.
HasMoreFollowsResponse ==
  LoadSucceeded =>
    /\ ev.has_more = "true" => hasMore
    /\ ev.has_more = "false" => ~hasMore
    /\ ev.has_more = "undefined" => (hasMore <=> ev.len = LIMIT)

FullPageWithoutFlagWitness ==
  /\ LoadSucceeded
  /\ ev.has_more = "undefined" /\ ev.len = LIMIT
  /\ hasMore
  /\ Len(posts) >= LIMIT

\* C13 as claimed: after a successful load that returned fewer than LIMIT
\* posts, hasMore is false, whatever has_more the response carries.
ShortPageEndsPagination ==
  (LoadSucceeded /\ ev.len < LIMIT) => ~hasMore

\* C13 as amended: after a successful load that returned fewer than LIMIT
\* posts, hasMore is false unless the response carries has_more = true, in
\* which case it is true.
ShortPageEndsPaginationUnlessFlagged ==
  (LoadSucceeded /\ ev.len < LIMIT) => (hasMore <=> ev.has_more = "true")

ShortPageWitness ==
  /\ LoadSucceeded
  /\ ev.len = 1 /\ ev.has_more = "undefined"
  /\ ~hasMore
  /\ Len(posts) >= 1

\* C14: once hasMore is false, a load-more trigger issues no fetch, and
\* hasMore becomes true again only at the successful completion of a reset
\* load: never at an append completion or in a feedback step.
HasMoreStaysFalse ==
  [][/\ (~hasMore /\ ev'.op = "handleLoadMore") => ~ev'.issued
     /\ (~hasMore /\ hasMore') =>
          (ev'.op = "loadPostsDone" /\ ev'.reset /\ ev'.outcome = "posts")]_vars

\* C15: the completion of a failed load-more (thrown error or non-2xx) leaves
\* the held posts and the cursor offset as they were, sets error, and ends
\* with hasMore and loadingMore false.
FailedLoadMoreKeepsFeed ==
  [][(ev'.op = "loadPostsDone" /\ ~ev'.reset /\ ev'.outcome \in {"throw", "not_ok"})
       => /\ posts' = posts
          /\ offset' = offset
          /\ error' = LoadFailedMsg
          /\ ~hasMore'
          /\ ~loadingMore']_vars

FailedLoadMoreWitness ==
  /\ ev.op = "loadPostsDone" /\ ~ev.reset /\ ev.outcome = "not_ok"
  /\ Len(posts) = LIMIT
  /\ offset = LIMIT
  /\ error = LoadFailedMsg
  /\ ~hasMore /\ ~loadingMore

\* C16: every reset load requests offset 0, and at its successful completion
\* the held sequence is exactly the returned page and the cursor offset is
\* the length of that page.
ResetReplacesFeed ==
  /\ \A i \in 1..Len(fetches) : fetches[i].reset => fetches[i].currentOffset = 0
  /\ (LoadSucceeded /\ ev.reset) =>
       /\ posts = ServerPage(0, ev.len)
       /\ offset = ev.len

RefreshReplacedWitness ==
  /\ LoadSucceeded /\ ev.reset /\ ~ev.first
  /\ ev.len = 1
  /\ IdsOf(posts) = <<1>>
  /\ offset = 1
  /\ nLoads >= 3

IsTap(e) == e.op \in {"handleLike", "handleDislike"}

\* C17: a tap on a held post adds exactly one PUT, whose body carries the
\* flags the optimistic update wrote on the posts with that id; the PUTs
\* already in flight stay (no coalescing), the completion of a PUT issues
\* none (no retry), and a tap on a post_id that is not held issues no
\* request and changes no state.
TapIssuesOnePut ==
  [][/\ (IsTap(ev') /\ ev'.found) =>
          /\ Len(puts') = Len(puts) + 1
          /\ SubSeq(puts', 1, Len(puts)) = puts
          /\ LET p == puts'[Len(puts')]
             IN /\ p.postId = ev'.postId
                /\ p.kind = (IF ev'.op = "handleLike" THEN "like" ELSE "dislike")
                /\ \A i \in 1..Len(posts') :
                     posts'[i].post_id = ev'.postId =>
                       /\ posts'[i].like_status = p.like_status
                       /\ posts'[i].dislike_status = p.dislike_status
     /\ (IsTap(ev') /\ ~ev'.found) => UNCHANGED <<compVars, puts, fetches, server>>
     /\ ev'.op = "putDone" => Len(puts') = Len(puts) - 1
     /\ ~IsTap(ev') => Len(puts') <= Len(puts)]_vars

RepeatedTapWitness ==
  /\ ev.op = "handleLike" /\ ev.found
  /\ Len(puts) = 2
  /\ puts[1].postId = ev.postId /\ puts[2].postId = ev.postId
  /\ puts[1].kind = "like" /\ puts[2].kind = "like"
  /\ puts[1].like_status # puts[2].like_status

\* the posts at the positions off+1 .. off+len of the server's feed
Positions(pg) == (pg[1] + 1)..(pg[1] + pg[2])

\* the pages the server returned for distinct offsets share no post
ServedDisjoint ==
  \A a \in served, b \in served :
    a[1] # b[1] => Positions(a) \cap Positions(b) = {}

\* C18: when the pages the server returned for distinct offsets are
\* disjoint, no two held posts have the same post_id.
NoDuplicateIds ==
  ServedDisjoint =>
    \A i \in 1..Len(posts), j \in 1..Len(posts) :
      posts[i].post_id = posts[j].post_id => i = j

Finished == pc \in {"returned", "thrown"}

\* C19: a call of makeRequest that found no credential (the read of the
\* secure store gave null or the empty string, or was rejected) has invoked
\* fetch zero times and has thrown the missing-credential error.
NoFetchWithoutCredential ==
  (pc # "getApiKey" /\ pc # "idle" /\ (readFailed \/ apiKey = NULL \/ apiKey = "")) =>
    /\ netCalls = 0
    /\ header = NULL
    /\ pc = "thrown"
    /\ result = Thrown(<<MissingKeyMsg>>)

EmptyCredentialWitness ==
  /\ pc = "thrown"
  /\ secureStore = ""
  /\ apiKey = "" /\ ~readFailed
  /\ netCalls = 0
  /\ result = Thrown(<<MissingKeyMsg>>)

\* C20: makeRequest invokes fetch at most once, and when that fetch has
\* ended the call has returned the response if its status is 2xx, thrown the
\* invalid-credential error if it is 401, thrown the HTTP error carrying the
\* status for any other status, and thrown the transport error itself if
\* fetch rejected; it returns a response in no other case.
FetchOutcomeDecidesResult ==
  /\ netCalls <= 1
  /\ (Finished /\ fetchOutcome.type = "response") =>
       /\ (fetchOutcome.status \in 200..299) =>
            (pc = "returned" /\ result = [kind |-> "response", status |-> fetchOutcome.status])
       /\ fetchOutcome.status = 401 =>
            (pc = "thrown" /\ result = Thrown(<<InvalidKeyMsg>>))
       /\ (fetchOutcome.status \notin 200..299 /\ fetchOutcome.status # 401) =>
            (pc = "thrown" /\ result = Thrown(<<HttpErrorMsg, fetchOutcome.status>>))
  /\ (Finished /\ fetchOutcome.type = "rejected") =>
       (pc = "thrown" /\ result = Thrown(<<fetchOutcome.error>>))
  /\ pc = "returned" =>
       (netCalls = 1 /\ fetchOutcome.type = "response" /\ fetchOutcome.status \in 200..299)
  /\ (Finished /\ result.kind = "response") => pc = "returned"

UnauthorizedWitness ==
  /\ pc = "thrown"
  /\ netCalls = 1
  /\ fetchOutcome = [type |-> "response", status |-> 401]
  /\ result = Thrown(<<InvalidKeyMsg>>)
  /\ header # NULL

IsFeedback(e) == IsTap(e) \/ e.op = "putDone"

\* the post with its two status fields blanked
Unflagged(post) == [post EXCEPT !.like_status = FALSE, !.dislike_status = FALSE]

\* C22: a feedback step (a tap, or the success or failure of a PUT) changes
\* nothing but the like_status and dislike_status of the posts with the
\* targeted post_id: the held sequence keeps its length, order, ids and
\* contents, every other post keeps its flags, and error, hasMore, offset,
\* the loading flags and the feed requests in flight are unchanged.
FeedbackTouchesOnlyFlags ==
  [][IsFeedback(ev') =>
       /\ Len(posts') = Len(posts)
       /\ \A i \in 1..Len(posts) :
            /\ Unflagged(posts'[i]) = Unflagged(posts[i])
            /\ posts[i].post_id # ev'.postId => posts'[i] = posts[i]
       /\ UNCHANGED <<error, hasMore, offset, loading, refreshing, loadingMore,
                      fetches>>]_vars

FailedFeedbackWitness ==
  /\ PutFailed
  /\ error = NULL
  /\ Len(posts) = LIMIT
  /\ hasMore
  /\ offset = LIMIT

IsPrefix(s, t) == Len(s) <= Len(t) /\ SubSeq(t, 1, Len(s)) = s

\* C23: in every step that is not the completion of a reset load, the
\* post ids held before the step are a prefix of those held after it.
HeldIdsOnlyGrow ==
  [][~(ev'.op = "loadPostsDone" /\ ev'.reset) =>
       IsPrefix(IdsOf(posts), IdsOf(posts'))]_vars

AppendedWitness ==
  /\ LoadSucceeded /\ ~ev.reset
  /\ ev.len = 1
  /\ Len(posts) = LIMIT + 1
  /\ posts[LIMIT + 1].post_id = LIMIT + 1

\* C25: when no feed fetch is in flight and the feed load that completed
\* last succeeded with a posts array, error is null.
SuccessLeavesNoError ==
  (LoadSucceeded /\ fetches = <<>>) => error = NULL

\* C26: when no feed fetch is in flight and hasMore is true, the cursor
\* offset is the number of posts held.
CursorMatchesHeldPosts ==
  (fetches = <<>> /\ hasMore) => offset = Len(posts)

\* C27: the held posts are all placeholder posts or all posts returned by
\* the server.
PlaceholdersNeverMixed ==
  \/ \A i \in 1..Len(posts) : posts[i].post_content = "fallback"
  \/ \A i \in 1..Len(posts) : posts[i].post_content = "api"

AllIdle == ~loading /\ ~refreshing /\ ~loadingMore

\* C24: when every feed fetch in flight eventually resolves, the loads that
\* were started eventually have all completed with loading, refreshing and
\* loadingMore all false.
EveryLoadSettles == (fetches # <<>>) ~> (fetches = <<>> /\ AllIdle)

FailedRefreshSettledWitness ==
  /\ ev.op = "loadPostsDone" /\ ev.reset /\ ~ev.first
  /\ ev.outcome = "throw"
  /\ fetches = <<>>
  /\ AllIdle

\* C21: when a tap, the success of its PUT, the same tap again and the
\* success of its PUT follow each other with no step in between, every held
\* post with the tapped id has the tapped flag at the value the located post
\* had before the first tap, and the other flag false.
SecondTapClears ==
  (ev.op = "putDone" /\ ev.outcome = "ok" /\ ev.direct /\ ev.second) =>
    /\ FindIndex(posts, ev.postId) # 0
    /\ \A i \in 1..Len(posts) :
         posts[i].post_id = ev.postId =>
           /\ Toggled(posts[i], ev.kind) = ev.prior0
           /\ ~OtherFlag(posts[i], ev.kind)

SecondTapWitness ==
  /\ ev.op = "putDone" /\ ev.outcome = "ok" /\ ev.direct /\ ev.second
  /\ ev.kind = "like"
  /\ ~ev.prior0 /\ ev.prior
  /\ \E i \in 1..Len(posts) :
       /\ posts[i].post_id = ev.postId
       /\ ~posts[i].like_status /\ ~posts[i].dislike_status
  /\ server[ev.postId] = NoFlags

\* C28: when the first load is the only feed load, every feedback PUT
\* issued has resolved and none has failed, each held server post of TapIds
\* has the like_status and dislike_status the server stores for it.
SettledFlagsMatchServer ==
  (nLoads = 1 /\ fetches = <<>> /\ puts = <<>> /\ ~putFailed) =>
    \A i \in 1..Len(posts) :
      (posts[i].post_id \in TapIds /\ posts[i].post_content = "api") =>
        /\ posts[i].like_status = server[posts[i].post_id].like_status
        /\ posts[i].dislike_status = server[posts[i].post_id].dislike_status

====
